---- MODULE Spec2Model ----
(***************************************************************************)
(* Process lifecycle manager of src/iplan_http_server.js (lines 24-241):   *)
(* the runningProcesses map, cleanupProcess, the run / stop / list         *)
(* endpoints, the per-execution 'close' callback and 5 minute timer, and   *)
(* the SIGTERM / SIGINT handlers.                                          *)
(*                                                                         *)
(* Every JavaScript callback runs to completion on the single event-loop   *)
(* thread, so each handler is one atomic action.  The operating system     *)
(* runs the child processes concurrently with the host: a child's exit     *)
(* (OsExit) is a step of its own, and the host learns of it only when the  *)
(* 'close' callback is dispatched later.                                   *)
(*                                                                         *)
(* Library behaviour the handlers rely on (Node.js child_process, events,  *)
(* http) is modelled next to the call that uses it:                        *)
(*   - spawn() either returns a live child ("ok"), returns a child whose   *)
(*     start failed and that emits 'error' on the next tick ("enoent":     *)
(*     missing working directory or shell), or throws ("threw");           *)
(*   - an 'error' event without a listener is thrown and, as the program   *)
(*     installs no uncaughtException handler, ends the host;               *)
(*   - child.kill() signals the child and sets child.killed only if the    *)
(*     child has not exited; the child is 'cmd', i.e. Windows, where the   *)
(*     signal is an unconditional TerminateProcess;                        *)
(*   - writing a response to a request already answered throws.            *)
(*                                                                         *)
(* The file also holds the Iplan MCP server (lines 247-1740), a program    *)
(* of its own: its Base44 conversation polling (startPolling,              *)
(* checkForNewMessages, processAndRespond, sendResponseToBase44 and the    *)
(* processedConversationIds set) and its API mode switch are modelled by   *)
(* the specifications SpecPoll and SpecMode.  An async function runs       *)
(* without interruption up to its next await, so each stretch between two  *)
(* awaits is one atomic action.                                            *)
(***************************************************************************)
EXTENDS Integers, Sequences, FiniteSets, TLC

\* ---- bounds ------------------------------------------------------------
MaxExec == 2          \* run requests (child-process handles) per behaviour
MaxRepeat == 2        \* consecutive identical stop requests that are counted
MaxData == 2          \* 'data' events (chunks) delivered per behaviour
MaxConv == 2          \* Base44 conversations
MaxCheck == 2         \* checkForNewMessages runs in progress at once

Procs == 1..MaxExec
Ids == 1..(MaxExec + 1)         \* values generateId can return; one is never issued
NoProc == 0
NoId == 0
Convs == 1..MaxConv
Checks == 1..MaxCheck
NoConv == 0

VARIABLES
    runningProcesses, \* the Map: sequence of [id, proc] in insertion order
    issued,           \* ids generateId has returned so far
    spawned,          \* per handle: "unused" | "ok" | "enoent" | "threw"
    execId,           \* per handle: the executionId captured by its closures
    os,               \* per handle: OS process "none" | "running" | "terminating" | "exited"
    killed,           \* per handle: ChildProcess.killed
    closed,           \* per handle: the 'close' callback has run
    timer,            \* per handle: "none" | "pending" | "fired"
    resp,             \* per handle: responses delivered to its run request
    killCalls,        \* per handle: calls of process.kill()
    signals,          \* per handle: termination signals delivered to a live process
    delCalls,         \* per id: calls of runningProcesses.delete(id)
    host,             \* "up" | "crashed" | "exited"
    pendingError,     \* handle whose 'error' event is queued for the next tick
    lastOp,           \* the callback the host handled last
    listed,           \* body of the last GET /processes response
    output,           \* per handle: the closure variable output (code points)
    errorOutput,      \* per handle: the closure variable errorOutput
    stdoutChunks,     \* per handle: the chunks its stdout 'data' events carried
    stderrChunks,     \* per handle: the chunks its stderr 'data' events carried
    exitCode,         \* per handle: "none" | "0" | "1" | "null" (ended by a signal)
    logged            \* per handle: what its close callback wrote to the console

\* The second program of the file, the Iplan MCP server (lines 247-1740): a
\* separate host process with its own module state.
VARIABLES
    mcpPhase,                 \* "unloaded" | "loaded" | "listening"
    USE_REAL_API,             \* the constant of line 266
    env_USE_REAL_API,         \* process.env.USE_REAL_API: "undefined" | "true" | "false"
    BASE44_APP_URL,           \* the constant of line 275
    pollingActive,            \* IplanMCPServer.pollingActive
    intervals,                \* setInterval timers created at line 1706 (never cleared)
    processedConversationIds, \* the Set of line 282
    checks,                   \* per run of checkForNewMessages: where it is suspended
    evictions,                \* per conversation: pending setTimeout deletions, by delay
    mcpOp,                    \* the mode request the server handled last
    toggled,                  \* current_mode in the last /api/toggle-real-mode response
    reported,                 \* mode in the last /api/current-mode response
    health,                   \* current_mode in the last GET / response
    searched                  \* the branch searchPlans took last

pmVars == <<runningProcesses, issued, spawned, execId, os, killed, closed, timer,
            resp, killCalls, signals, delCalls, host, pendingError, lastOp, listed,
            output, errorOutput, stdoutChunks, stderrChunks, exitCode, logged>>

mcpVars == <<mcpPhase, USE_REAL_API, env_USE_REAL_API, BASE44_APP_URL,
             pollingActive, intervals, processedConversationIds, checks,
             evictions, mcpOp, toggled, reported, health, searched>>

vars == <<pmVars, mcpVars>>

\* The program state as one record, so that handlers are functions on it.
Cur ==
    [rp |-> runningProcesses, issued |-> issued, spawned |-> spawned,
     execId |-> execId, os |-> os, killed |-> killed, closed |-> closed,
     timer |-> timer, resp |-> resp, killCalls |-> killCalls,
     signals |-> signals, delCalls |-> delCalls, host |-> host,
     pendingError |-> pendingError, output |-> output,
     errorOutput |-> errorOutput, stdoutChunks |-> stdoutChunks,
     stderrChunks |-> stderrChunks, exitCode |-> exitCode, logged |-> logged]

Commit(s) ==
    /\ runningProcesses' = s.rp
    /\ issued' = s.issued
    /\ spawned' = s.spawned
    /\ execId' = s.execId
    /\ os' = s.os
    /\ killed' = s.killed
    /\ closed' = s.closed
    /\ timer' = s.timer
    /\ resp' = s.resp
    /\ killCalls' = s.killCalls
    /\ signals' = s.signals
    /\ delCalls' = s.delCalls
    /\ host' = s.host
    /\ pendingError' = s.pendingError
    /\ output' = s.output
    /\ errorOutput' = s.errorOutput
    /\ stdoutChunks' = s.stdoutChunks
    /\ stderrChunks' = s.stderrChunks
    /\ exitCode' = s.exitCode
    /\ logged' = s.logged
    /\ UNCHANGED mcpVars

\* lastOp: op the callback, id its execution id, resp the response body, n a
\* count (consecutive identical stops; entries met by a sweep), hit whether
\* the id was in the registry when the callback ran (for a run of identical
\* stops: when the first of them ran).
Op(o, i, r, n, h) == [op |-> o, id |-> i, resp |-> r, n |-> n, hit |-> h]

\* ---- the Map runningProcesses -------------------------------------------
MapHas(rp, id) == \E i \in 1..Len(rp) : rp[i].id = id

MapGet(rp, id) == rp[CHOOSE i \in 1..Len(rp) : rp[i].id = id].proc

MapSet(rp, id, p) ==
    IF MapHas(rp, id)
    THEN [i \in 1..Len(rp) |-> IF rp[i].id = id THEN [id |-> id, proc |-> p] ELSE rp[i]]
    ELSE Append(rp, [id |-> id, proc |-> p])

MapDelete(rp, id) == SelectSeq(rp, LAMBDA e : e.id # id)

MapKeys(rp) == [i \in 1..Len(rp) |-> rp[i].id]


\* ---- library calls ------------------------------------------------------
\* ChildProcess.kill(), called at line 37: the signal reaches the child and
\* child.killed is set only while the child has not exited.
kill(s, p) ==
    LET s1 == [s EXCEPT !.killCalls[p] = @ + 1]
    IN  IF s.os[p] = "running"
        THEN [s1 EXCEPT !.os[p] = "terminating", !.killed[p] = TRUE,
                        !.signals[p] = @ + 1]
        ELSE s1

\* res.json(...): delivers r if the request is unanswered, otherwise throws
\* (headers already sent) and delivers nothing.
resJson(sent, r) ==
    IF sent = <<>> THEN [threw |-> FALSE, sent |-> <<r>>]
                   ELSE [threw |-> TRUE, sent |-> sent]

\* data.toString() at lines 182 and 186: UTF-8 decoding of one chunk on its
\* own.  A byte below 128 is its own code point, the lead byte 195 followed
\* by a continuation byte 128..191 is one code point, and a byte that is not
\* part of a complete sequence within the chunk becomes U+FFFD (65533).
RECURSIVE toString(_)
toString(data) ==
    IF data = <<>> THEN <<>>
    ELSE IF data[1] < 128
         THEN <<data[1]>> \o toString(Tail(data))
    ELSE IF data[1] = 195 /\ Len(data) >= 2 /\ data[2] \in 128..191
         THEN <<64 + data[2]>> \o toString(Tail(Tail(data)))
    ELSE <<65533>> \o toString(Tail(data))

\* What every child writes, over and over: "a" and the two-byte character
\* 195 169 on stdout, "E" and the same character on stderr.  The pipe hands
\* the text over one byte per chunk, so the two-byte character is split.
StdoutText == <<97, 195, 169>>
StderrText == <<69, 195, 169>>

\* the chunk a stream delivers after k chunks
NextChunk(text, k) == <<text[(k % Len(text)) + 1]>>

RECURSIVE Flatten(_)
Flatten(ss) == IF ss = <<>> THEN <<>> ELSE ss[1] \o Flatten(Tail(ss))

\* ---- cleanupProcess (lines 33-41) ---------------------------------------
cleanupProcessNoDelete(s, id) ==
    IF MapHas(s.rp, id)
    THEN LET p == MapGet(s.rp, id)
         IN  IF p # NoProc /\ ~s.killed[p] THEN kill(s, p) ELSE s
    ELSE s

cleanupProcessDeleteInElse(s, id) ==
    IF MapHas(s.rp, id)
    THEN LET p == MapGet(s.rp, id)
         IN  IF p # NoProc /\ ~s.killed[p]
             THEN kill(s, p)
             ELSE [s EXCEPT !.rp = MapDelete(@, id), !.delCalls[id] = @ + 1]
    ELSE s

cleanupProcessNoKill(s, id) ==
    IF MapHas(s.rp, id)
    THEN [s EXCEPT !.rp = MapDelete(@, id), !.delCalls[id] = @ + 1]
    ELSE s

\* removal made conditional on the termination having been delivered
cleanupProcessDeleteIfKilled(s, id) ==
    IF MapHas(s.rp, id)
    THEN LET p == MapGet(s.rp, id)
             s1 == IF p # NoProc /\ ~s.killed[p] THEN kill(s, p) ELSE s
         IN  IF s1.killed[p]
             THEN [s1 EXCEPT !.rp = MapDelete(@, id), !.delCalls[id] = @ + 1]
             ELSE s1
    ELSE s

cleanupProcess(s, id) ==
    IF MapHas(s.rp, id)
    THEN LET p == MapGet(s.rp, id)
             s1 == IF p # NoProc /\ ~s.killed[p] THEN kill(s, p) ELSE s
         IN  [s1 EXCEPT !.rp = MapDelete(@, id), !.delCalls[id] = @ + 1]
    ELSE s

\* ---- POST /project/:id/run (lines 160-206) ------------------------------
\* p is the ChildProcess this request creates, id the value of generateId(),
\* outcome what spawn() does, rejCrash whether the runtime ends the host on
\* an unhandled promise rejection (the default since Node 15) or only warns.
runHandlerNoRegister(s, p, id, outcome, rejCrash) ==
    LET r  == resJson(s.resp[p], "started")
        s1 == [s EXCEPT !.issued = @ \cup {id}, !.execId[p] = id,
                        !.resp[p] = r.sent, !.spawned[p] = outcome]
    IN  IF outcome = "threw"
        THEN LET e == resJson(s1.resp[p], "failed")
             IN  [s1 EXCEPT !.resp[p] = e.sent,
                            !.host = IF e.threw /\ rejCrash THEN "crashed" ELSE @]
        ELSE [s1 EXCEPT !.os[p] = IF outcome = "ok" THEN "running" ELSE "none",
                        !.timer[p] = "pending",
                        !.pendingError = IF outcome = "enoent" THEN p ELSE @]

\* the response left to a later callback instead of being sent at once
runHandlerRespondLater(s, p, id, outcome, rejCrash) ==
    LET s1 == [s EXCEPT !.issued = @ \cup {id}, !.execId[p] = id,
                        !.spawned[p] = outcome]
    IN  IF outcome = "threw"
        THEN LET e == resJson(s1.resp[p], "failed")
             IN  [s1 EXCEPT !.resp[p] = e.sent]
        ELSE [s1 EXCEPT !.os[p] = IF outcome = "ok" THEN "running" ELSE "none",
                        !.rp = MapSet(@, id, p),
                        !.timer[p] = "pending",
                        !.pendingError = IF outcome = "enoent" THEN p ELSE @]

\* the execution id taken from a source that repeats (here: always the
\* first token) instead of a fresh generateId() value
runHandlerReuseId(s, p, id, outcome, rejCrash) ==
    LET rid == 1
        r  == resJson(s.resp[p], "started")
        s1 == [s EXCEPT !.issued = @ \cup {id}, !.execId[p] = rid,
                        !.resp[p] = r.sent, !.spawned[p] = outcome]
    IN  IF outcome = "threw"
        THEN LET e == resJson(s1.resp[p], "failed")
             IN  [s1 EXCEPT !.resp[p] = e.sent,
                            !.host = IF e.threw /\ rejCrash THEN "crashed" ELSE @]
        ELSE [s1 EXCEPT !.os[p] = IF outcome = "ok" THEN "running" ELSE "none",
                        !.rp = MapSet(@, rid, p),
                        !.timer[p] = "pending",
                        !.pendingError = IF outcome = "enoent" THEN p ELSE @]

\* the entry registered without the setTimeout of lines 198-200
runHandlerNoTimer(s, p, id, outcome, rejCrash) ==
    LET r  == resJson(s.resp[p], "started")
        s1 == [s EXCEPT !.issued = @ \cup {id}, !.execId[p] = id,
                        !.resp[p] = r.sent, !.spawned[p] = outcome]
    IN  IF outcome = "threw"
        THEN LET e == resJson(s1.resp[p], "failed")
             IN  [s1 EXCEPT !.resp[p] = e.sent,
                            !.host = IF e.threw /\ rejCrash THEN "crashed" ELSE @]
        ELSE [s1 EXCEPT !.os[p] = IF outcome = "ok" THEN "running" ELSE "none",
                        !.rp = MapSet(@, id, p),
                        !.pendingError = IF outcome = "enoent" THEN p ELSE @]

runHandler(s, p, id, outcome, rejCrash) ==
    LET r  == resJson(s.resp[p], "started")                      \* line 167
        s1 == [s EXCEPT !.issued = @ \cup {id}, !.execId[p] = id,
                        !.resp[p] = r.sent, !.spawned[p] = outcome]
    IN  IF outcome = "threw"
        THEN \* catch block, lines 202-205: the second res.json throws inside
             \* the async handler, which leaves an unhandled rejection
             LET e == resJson(s1.resp[p], "failed")
             IN  [s1 EXCEPT !.resp[p] = e.sent,
                            !.host = IF e.threw /\ rejCrash THEN "crashed" ELSE @]
        ELSE [s1 EXCEPT !.os[p] = IF outcome = "ok" THEN "running" ELSE "none",
                        !.rp = MapSet(@, id, p),                 \* line 176
                        !.timer[p] = "pending",                  \* line 198
                        !.pendingError = IF outcome = "enoent" THEN p ELSE @]

\* ---- 'close' callback (lines 189-195) -----------------------------------
closeHandlerLogOnly(s, p) == [s EXCEPT !.closed[p] = TRUE]

\* a close callback that treats a non-zero exit code as an error and throws
closeHandlerThrowOnFailure(s, p) ==
    [cleanupProcess(s, s.execId[p]) EXCEPT
        !.closed[p] = TRUE,
        !.host = IF s.exitCode[p] = "1" THEN "crashed" ELSE @,
        !.logged[p] = [done |-> TRUE, code |-> s.exitCode[p],
                       out |-> s.output[p], err |-> s.errorOutput[p]]]

\* the event carries the exit code (null if a signal ended the process);
\* the callback writes it and both accumulators to the console
closeHandler(s, p) ==
    [cleanupProcess(s, s.execId[p]) EXCEPT
        !.closed[p] = TRUE,
        !.logged[p] = [done |-> TRUE, code |-> s.exitCode[p],
                       out |-> s.output[p], err |-> s.errorOutput[p]]]

\* ---- stdout / stderr 'data' callbacks (lines 181-187) -------------------
\* the chunk put in front of the accumulator
stdoutHandlerPrepend(s, p, data) ==
    [s EXCEPT !.output[p] = toString(data) \o @,
              !.stdoutChunks[p] = Append(@, data)]

\* the chunk dropped once the execution is no longer registered
stdoutHandlerIfRegistered(s, p, data) ==
    IF MapHas(s.rp, s.execId[p])
    THEN [s EXCEPT !.output[p] = @ \o toString(data),
                   !.stdoutChunks[p] = Append(@, data)]
    ELSE [s EXCEPT !.stdoutChunks[p] = Append(@, data)]

stdoutHandler(s, p, data) ==
    [s EXCEPT !.output[p] = @ \o toString(data),
              !.stdoutChunks[p] = Append(@, data)]

stderrHandler(s, p, data) ==
    [s EXCEPT !.errorOutput[p] = @ \o toString(data),
              !.stderrChunks[p] = Append(@, data)]

\* ---- auto cleanup timer (lines 198-200) ---------------------------------
timeoutHandlerKillDirect(s, p) ==
    [(IF ~s.killed[p] THEN kill(s, p) ELSE s) EXCEPT
        !.rp = MapDelete(@, s.execId[p]), !.timer[p] = "fired"]

\* a timer that also tears down the oldest execution still registered
timeoutHandlerAlsoOldest(s, p) ==
    LET s1 == cleanupProcess(s, s.execId[p])
        s2 == IF s1.rp # <<>> THEN cleanupProcess(s1, s1.rp[1].id) ELSE s1
    IN  [s2 EXCEPT !.timer[p] = "fired"]

timeoutHandler(s, p) ==
    [cleanupProcess(s, s.execId[p]) EXCEPT !.timer[p] = "fired"]

\* ---- POST /execution/:id/stop (lines 209-218) ---------------------------
stopHandlerRejectUnknown(s, id) ==
    IF MapHas(s.rp, id)
    THEN [st |-> cleanupProcess(s, id), resp |-> "Process stopped"]
    ELSE [st |-> s, resp |-> "Failed to stop process"]

stopHandler(s, id) ==
    [st |-> cleanupProcess(s, id), resp |-> "Process stopped"]

\* ---- GET /processes (lines 221-227) -------------------------------------
\* the list restricted to the entries whose process has not exited
listProcessesLiveOnly(s) ==
    LET live == SelectSeq(s.rp, LAMBDA e : s.os[e.proc] # "exited")
    IN  [i \in 1..Len(live) |->
            [id |-> live[i].id,
             status |-> IF s.killed[live[i].proc] THEN "stopped" ELSE "running"]]

listProcesses(s) ==
    [i \in 1..Len(s.rp) |->
        [id |-> s.rp[i].id,
         status |-> IF s.killed[s.rp[i].proc] THEN "stopped" ELSE "running"]]

\* ---- SIGTERM / SIGINT (lines 230-241) -----------------------------------
\* runningProcesses.forEach visits the entries in insertion order; an entry
\* deleted before it is reached is not visited.  keys is the key order when
\* the iteration starts, k the position reached.
RECURSIVE forEachCleanup(_, _, _)
forEachCleanup(s, keys, k) ==
    IF k > Len(keys) THEN s
    ELSE forEachCleanup(IF MapHas(s.rp, keys[k]) THEN cleanupProcess(s, keys[k]) ELSE s,
                        keys, k + 1)

\* the index-based loop that skips the entry following each deleted one
RECURSIVE forEachByIndex(_, _)
forEachByIndex(s, k) ==
    IF k > Len(s.rp) THEN s
    ELSE forEachByIndex(cleanupProcess(s, s.rp[k].id), k + 1)

shutdownSweepByIndex(s) == forEachByIndex(s, 1)

shutdownSweep(s) == forEachCleanup(s, MapKeys(s.rp), 1)

\* SIGTERM handled like SIGINT
sigtermHandlerExit(s) == [shutdownSweep(s) EXCEPT !.host = "exited"]

sigtermHandler(s) == shutdownSweep(s)

\* process.exit(0) reached before the forEach
sigintHandlerExitFirst(s) == [s EXCEPT !.host = "exited"]

sigintHandler(s) == [shutdownSweep(s) EXCEPT !.host = "exited"]

\* ---- generateId (lines 28-30) -------------------------------------------
\* 16 random bytes, hex encoded.  The program only stores the token and
\* compares it for equality, so tokens are interchangeable and the model
\* takes the next unused one; a repeated token (probability 2^-128 per pair)
\* is not part of this specification.
\* a short token that can repeat
generateIdAny(s) == Ids

generateId(s) ==
    LET fresh == Ids \ s.issued
    IN  {CHOOSE i \in fresh : \A j \in fresh : i <= j}

\* ---- Iplan MCP server: module state -------------------------------------
McpCur ==
    [phase |-> mcpPhase, USE_REAL_API |-> USE_REAL_API, env |-> env_USE_REAL_API,
     url |-> BASE44_APP_URL, pollingActive |-> pollingActive,
     intervals |-> intervals, processed |-> processedConversationIds,
     checks |-> checks, evictions |-> evictions, op |-> mcpOp,
     toggled |-> toggled, reported |-> reported, health |-> health,
     searched |-> searched]

McpCommit(s) ==
    /\ mcpPhase' = s.phase
    /\ USE_REAL_API' = s.USE_REAL_API
    /\ env_USE_REAL_API' = s.env
    /\ BASE44_APP_URL' = s.url
    /\ pollingActive' = s.pollingActive
    /\ intervals' = s.intervals
    /\ processedConversationIds' = s.processed
    /\ checks' = s.checks
    /\ evictions' = s.evictions
    /\ mcpOp' = s.op
    /\ toggled' = s.toggled
    /\ reported' = s.reported
    /\ health' = s.health
    /\ searched' = s.searched
    /\ UNCHANGED pmVars

\* a run of checkForNewMessages that is not in progress
IdleCheck == [pc |-> "idle", todo |-> {}, cur |-> NoConv, skipped |-> {}]

McpInit ==
    /\ mcpPhase = "unloaded"
    /\ USE_REAL_API = FALSE
    /\ env_USE_REAL_API = "undefined"
    /\ BASE44_APP_URL = ""
    /\ pollingActive = FALSE
    /\ intervals = 0
    /\ processedConversationIds = {}
    /\ checks = [k \in Checks |-> IdleCheck]
    /\ evictions = [c \in Convs |-> [long |-> 0, short |-> 0]]
    /\ mcpOp = "none"
    /\ toggled = "none"
    /\ reported = "none"
    /\ health = "none"
    /\ searched = "none"

\* ---- module evaluation and constructor (lines 247-303) ------------------
\* env is process.env.USE_REAL_API and url the value BASE44_APP_URL gets
\* (process.env.BASE44_APP_URL or the default of line 275) at start-up.
loadModule(s, env, url) ==
    [s EXCEPT !.phase = "loaded",
              !.env = env,
              !.USE_REAL_API = (env = "true"),          \* line 266
              !.url = url,                              \* line 275
              !.processed = {},                         \* line 282
              !.pollingActive = FALSE]                  \* line 288

\* the test of lines 1405 and 1693
urlConfigured(s) == s.url # "" /\ s.url # "https://[your-app-url]"

\* ---- checkForNewMessages (lines 1402-1469) ------------------------------
\* The call runs up to the await of fetch (line 1413); k is the run.
checkForNewMessages(s, k) ==
    IF ~urlConfigured(s) THEN s
    ELSE [s EXCEPT !.checks[k] = [IdleCheck EXCEPT !.pc = "fetch"]]

\* ---- startPolling (lines 1692-1719) -------------------------------------
startPolling(s, k) ==
    IF urlConfigured(s)
    THEN [checkForNewMessages(s, k) EXCEPT !.intervals = @ + 1]
    ELSE s

\* ---- run: the listen callback (lines 1721-1736) -------------------------
listenCallback(s, k) == [startPolling(s, k) EXCEPT !.phase = "listening"]

\* ---- POST /api/configure (lines 456-487) --------------------------------
\* valid: app_id and api_key are both present in the body
configureHandler(s, k, valid) ==
    IF ~valid THEN s
    ELSE IF ~s.pollingActive
         THEN [startPolling(s, k) EXCEPT !.pollingActive = TRUE]
         ELSE s

\* ---- the for loop of checkForNewMessages (lines 1436-1464) --------------
\* todo holds the conversations of the fetched list not yet visited whose
\* last message is the user's (the others are passed over without effect);
\* the list is visited in ascending order of id.  The loop runs until it
\* awaits processAndRespond or reaches the end of the list.
Smallest(S) == CHOOSE c \in S : \A d \in S : c <= d

\* mark: whether line 1457 is executed
RECURSIVE forEachConversation(_, _, _, _)
forEachConversation(s, k, todo, mark) ==
    IF todo = {} THEN [s EXCEPT !.checks[k] = IdleCheck]
    ELSE LET c == Smallest(todo)
         IN  IF c \notin s.processed                              \* line 1451
             THEN [s EXCEPT !.processed = IF mark THEN @ \cup {c} ELSE @,
                            !.checks[k].pc = "tool",              \* line 1460
                            !.checks[k].todo = todo \ {c},
                            !.checks[k].cur = c]
             ELSE forEachConversation(                            \* line 1462
                      [s EXCEPT !.checks[k].skipped = @ \cup {c}],
                      k, todo \ {c}, mark)

\* the conversation handed to processAndRespond without being marked
conversationLoopNoMark(s, k, todo) == forEachConversation(s, k, todo, FALSE)

conversationLoop(s, k, todo) == forEachConversation(s, k, todo, TRUE)

\* the fetch of line 1413 settles: it fails, or the response is not ok, or
\* data.success is missing (the run ends), or it delivers the list
fetchReturn(s, k, ok, list) ==
    IF ~ok THEN [s EXCEPT !.checks[k] = IdleCheck]
    ELSE conversationLoop(s, k, list)

\* ---- processAndRespond (lines 1471-1556) --------------------------------
\* the awaited tool call returns or throws; either way the function goes on
\* to await sendResponseToBase44 (line 1546 or line 1552)
toolDone(s, k) == [s EXCEPT !.checks[k].pc = "send"]

\* ---- sendResponseToBase44 (lines 1558-1609) -----------------------------
\* no eviction scheduled when sending fails
sendDoneNoRetry(s, k, ok) ==
    LET c  == s.checks[k].cur
        s1 == IF ok THEN [s EXCEPT !.evictions[c].long = @ + 1] ELSE s
    IN  conversationLoop([s1 EXCEPT !.checks[k].cur = NoConv], k, s.checks[k].todo)

\* ok: the POST succeeded and its body parsed (setTimeout of line 1598);
\* otherwise the catch block (setTimeout of line 1607).  processAndRespond
\* then returns and the loop of checkForNewMessages goes on.
sendDone(s, k, ok) ==
    LET c  == s.checks[k].cur
        s1 == IF ok THEN [s EXCEPT !.evictions[c].long = @ + 1]
                    ELSE [s EXCEPT !.evictions[c].short = @ + 1]
    IN  conversationLoop([s1 EXCEPT !.checks[k].cur = NoConv], k, s.checks[k].todo)

\* the callbacks of the two setTimeout calls
evictLong(s, c) ==
    [s EXCEPT !.processed = @ \ {c}, !.evictions[c].long = @ - 1]

evictShort(s, c) ==
    [s EXCEPT !.processed = @ \ {c}, !.evictions[c].short = @ - 1]

\* ---- API mode (lines 309-314, 640-664, 1030-1035) -----------------------
ModeOf(real) == IF real THEN "real" ELSE "demo"

toggleRealMode(s, enabled) ==
    [s EXCEPT !.env = IF enabled THEN "true" ELSE "false",        \* line 642
              !.toggled = ModeOf(enabled),
              !.op = "toggle"]

currentMode(s) == [s EXCEPT !.reported = ModeOf(s.env = "true"), !.op = "mode"]

healthCheck(s) == [s EXCEPT !.health = ModeOf(s.env = "true"), !.op = "health"]

\* searchPlansReal is called iff the test of line 1033 holds
searchPlans(s) ==
    [s EXCEPT !.searched = ModeOf(s.USE_REAL_API \/ s.env = "true"),
              !.op = "search"]

\* ---- initial state ------------------------------------------------------
Init ==
    /\ runningProcesses = <<>>
    /\ issued = {}
    /\ spawned = [p \in Procs |-> "unused"]
    /\ execId = [p \in Procs |-> NoId]
    /\ os = [p \in Procs |-> "none"]
    /\ killed = [p \in Procs |-> FALSE]
    /\ closed = [p \in Procs |-> FALSE]
    /\ timer = [p \in Procs |-> "none"]
    /\ resp = [p \in Procs |-> <<>>]
    /\ killCalls = [p \in Procs |-> 0]
    /\ signals = [p \in Procs |-> 0]
    /\ delCalls = [i \in Ids |-> 0]
    /\ host = "up"
    /\ pendingError = NoProc
    /\ lastOp = Op("start", NoId, "", 0, FALSE)
    /\ listed = <<>>
    /\ output = [p \in Procs |-> <<>>]
    /\ errorOutput = [p \in Procs |-> <<>>]
    /\ stdoutChunks = [p \in Procs |-> <<>>]
    /\ stderrChunks = [p \in Procs |-> <<>>]
    /\ exitCode = [p \in Procs |-> "none"]
    /\ logged = [p \in Procs |-> [done |-> FALSE, code |-> "none",
                                   out |-> <<>>, err |-> <<>>]]
    /\ McpInit

\* The host dispatches a callback only while it is up, and the next-tick
\* queue (the queued 'error' event) is drained before any other callback.
CanDispatch == host = "up" /\ pendingError = NoProc

\* ---- actions ------------------------------------------------------------
RunRequest ==
    /\ CanDispatch
    /\ \E p \in Procs :
        /\ spawned[p] = "unused"
        /\ \A q \in Procs : q < p => spawned[q] # "unused"
        /\ \E id \in generateId(Cur), outcome \in {"ok", "enoent", "threw"},
              rejCrash \in BOOLEAN :
            /\ outcome # "threw" => rejCrash
            /\ Commit(runHandler(Cur, p, id, outcome, rejCrash))
            /\ lastOp' = Op("run", id, "started", 0, FALSE)
    /\ UNCHANGED listed

\* next tick after a failed spawn: 'error' is emitted, nobody listens, the
\* exception is uncaught and the host ends.
ErrorTick ==
    /\ host = "up"
    /\ pendingError # NoProc
    /\ Commit([Cur EXCEPT !.host = "crashed", !.pendingError = NoProc])
    /\ lastOp' = Op("error", execId[pendingError], "", 0, FALSE)
    /\ UNCHANGED listed

\* the operating system: a child ends by itself, with exit code 0 or not 0,
\* or is ended by the signal, in which case Node reports the code null
OsExit ==
    \E p \in Procs :
        /\ os[p] \in {"running", "terminating"}
        /\ os' = [os EXCEPT ![p] = "exited"]
        /\ \E code \in (IF os[p] = "running" THEN {"0", "1"} ELSE {"null"}) :
              exitCode' = [exitCode EXCEPT ![p] = code]
        /\ UNCHANGED <<runningProcesses, issued, spawned, execId, killed, closed,
                       timer, resp, killCalls, signals, delCalls, host,
                       pendingError, lastOp, listed, output, errorOutput,
                       stdoutChunks, stderrChunks, logged>>
        /\ UNCHANGED mcpVars

CloseEvent ==
    /\ CanDispatch
    /\ \E p \in Procs :
        /\ os[p] = "exited"
        /\ ~closed[p]
        /\ Commit(closeHandler(Cur, p))
        /\ lastOp' = Op("close", execId[p], "", 0, MapHas(runningProcesses, execId[p]))
    /\ UNCHANGED listed

Timeout ==
    /\ CanDispatch
    /\ \E p \in Procs :
        /\ timer[p] = "pending"
        /\ Commit(timeoutHandler(Cur, p))
        /\ lastOp' = Op("timeout", execId[p], "", 0, MapHas(runningProcesses, execId[p]))
    /\ UNCHANGED listed

StopRequest ==
    /\ CanDispatch
    /\ \E id \in Ids :
        LET r == stopHandler(Cur, id)
            again == lastOp.op = "stop" /\ lastOp.id = id
            n == IF again THEN lastOp.n + 1 ELSE 1
            h == IF again THEN lastOp.hit ELSE MapHas(runningProcesses, id)
        IN  /\ n <= MaxRepeat
            /\ Commit(r.st)
            /\ lastOp' = Op("stop", id, r.resp, n, h)
    /\ UNCHANGED listed

ListRequest ==
    /\ CanDispatch
    /\ listed' = listProcesses(Cur)
    /\ lastOp' = Op("list", NoId, "", 0, FALSE)
    /\ Commit(Cur)

Sigterm ==
    /\ CanDispatch
    /\ Commit(sigtermHandler(Cur))
    /\ lastOp' = Op("SIGTERM", NoId, "", Len(runningProcesses), runningProcesses # <<>>)
    /\ UNCHANGED listed

Sigint ==
    /\ CanDispatch
    /\ Commit(sigintHandler(Cur))
    /\ lastOp' = Op("SIGINT", NoId, "", Len(runningProcesses), runningProcesses # <<>>)
    /\ UNCHANGED listed

\* 'data' callbacks: a chunk read from the pipe of a started child.  The
\* pipes are drained before 'close' is emitted, so none arrives after it,
\* but chunks still arrive after the exit and after the entry was removed.
ChunksDelivered(q) == Len(stdoutChunks[q]) + Len(stderrChunks[q])

RECURSIVE SumChunks(_)
SumChunks(q) == IF q = 0 THEN 0 ELSE ChunksDelivered(q) + SumChunks(q - 1)

CanDeliver(p) ==
    /\ CanDispatch
    /\ spawned[p] = "ok"
    /\ ~closed[p]
    /\ SumChunks(MaxExec) < MaxData

StdoutData ==
    /\ \E p \in Procs :
        /\ CanDeliver(p)
        /\ Commit(stdoutHandler(Cur, p, NextChunk(StdoutText, Len(stdoutChunks[p]))))
    /\ UNCHANGED <<lastOp, listed>>

StderrData ==
    /\ \E p \in Procs :
        /\ CanDeliver(p)
        /\ Commit(stderrHandler(Cur, p, NextChunk(StderrText, Len(stderrChunks[p]))))
    /\ UNCHANGED <<lastOp, listed>>

\* The callbacks of an execution whose spawn succeeded, as in Spec but
\* without the lastOp and listed bookkeeping, for the specification that
\* adds the stream callbacks.
IORun ==
    /\ CanDispatch
    /\ \E p \in Procs :
        /\ spawned[p] = "unused"
        /\ \A q \in Procs : q < p => spawned[q] # "unused"
        /\ \E id \in generateId(Cur) :
              Commit(runHandler(Cur, p, id, "ok", TRUE))
    /\ UNCHANGED <<lastOp, listed>>

IOClose ==
    /\ CanDispatch
    /\ \E p \in Procs :
        /\ os[p] = "exited"
        /\ ~closed[p]
        /\ Commit(closeHandler(Cur, p))
    /\ UNCHANGED <<lastOp, listed>>

IOTimeout ==
    /\ CanDispatch
    /\ \E p \in Procs :
        /\ timer[p] = "pending"
        /\ Commit(timeoutHandler(Cur, p))
    /\ UNCHANGED <<lastOp, listed>>

IOStop ==
    /\ CanDispatch
    /\ \E id \in Ids : Commit(stopHandler(Cur, id).st)
    /\ UNCHANGED <<lastOp, listed>>

IOSigterm ==
    /\ CanDispatch
    /\ Commit(sigtermHandler(Cur))
    /\ UNCHANGED <<lastOp, listed>>

\* The stdout callback with the lastOp bookkeeping.
StdoutEvent ==
    /\ \E p \in Procs :
        /\ CanDeliver(p)
        /\ Commit(stdoutHandler(Cur, p, NextChunk(StdoutText, Len(stdoutChunks[p]))))
        /\ lastOp' = Op("stdout", execId[p], "", 0, MapHas(runningProcesses, execId[p]))
    /\ UNCHANGED listed

Next ==
    \/ RunRequest
    \/ ErrorTick
    \/ OsExit
    \/ CloseEvent
    \/ Timeout
    \/ StopRequest
    \/ ListRequest
    \/ Sigterm
    \/ Sigint

Spec == Init /\ [][Next]_vars

\* the executions together with their stream callbacks
NextIO ==
    \/ IORun
    \/ OsExit
    \/ IOClose
    \/ IOTimeout
    \/ IOStop
    \/ IOSigterm
    \/ StdoutData
    \/ StderrData

SpecIO == Init /\ [][NextIO]_vars

\* started executions up to their 'close' callback (after which no chunk
\* arrives), with their stdout callbacks recorded in lastOp
NextEv ==
    \/ IORun
    \/ OsExit
    \/ IOTimeout
    \/ IOStop
    \/ StdoutEvent
    \/ StderrData

SpecEv == Init /\ [][NextEv]_vars

\* started executions, their stream callbacks and the three teardown paths
\* of one execution; no shutdown signal
NextTd ==
    \/ IORun
    \/ OsExit
    \/ IOClose
    \/ IOTimeout
    \/ IOStop
    \/ StdoutData
    \/ StderrData

SpecTd == Init /\ [][NextTd]_vars

\* the requests and signals only: no stop request and no timer, so that a
\* child is signalled by a shutdown sweep and by nothing else
NextSig ==
    \/ RunRequest
    \/ ErrorTick
    \/ OsExit
    \/ CloseEvent
    \/ Sigterm
    \/ Sigint

SpecSig == Init /\ [][NextSig]_vars

\* ---- Iplan MCP server: callbacks ----------------------------------------
\* a run of checkForNewMessages takes the first run that is not in progress
FreeCheck(k) ==
    /\ checks[k].pc = "idle"
    /\ \A j \in Checks : j < k => checks[j].pc # "idle"

\* start-up, with the environment that matters to polling: whether
\* BASE44_APP_URL is a usable address
LoadUrl ==
    /\ mcpPhase = "unloaded"
    /\ \E url \in {"https://app", "https://[your-app-url]"} :
          McpCommit(loadModule(McpCur, "undefined", url))

\* start-up, with the environment that matters to the API mode
LoadEnv ==
    /\ mcpPhase = "unloaded"
    /\ \E env \in {"undefined", "true", "false"} :
          McpCommit(loadModule(McpCur, env, "https://app"))

Listen ==
    /\ mcpPhase = "loaded"
    /\ \E k \in Checks : FreeCheck(k) /\ McpCommit(listenCallback(McpCur, k))

Configure ==
    /\ mcpPhase = "listening"
    /\ \E k \in Checks, valid \in BOOLEAN :
          /\ FreeCheck(k)
          /\ McpCommit(configureHandler(McpCur, k, valid))

\* a setInterval timer fires (line 1706)
PollTick ==
    /\ intervals > 0
    /\ \E k \in Checks : FreeCheck(k) /\ McpCommit(checkForNewMessages(McpCur, k))

FetchReturnOf(k) ==
    /\ checks[k].pc = "fetch"
    /\ \E ok \in BOOLEAN, list \in SUBSET Convs :
          /\ ~ok => list = {}
          /\ McpCommit(fetchReturn(McpCur, k, ok, list))

FetchReturn == \E k \in Checks : FetchReturnOf(k)

ToolDoneOf(k) ==
    /\ checks[k].pc = "tool"
    /\ McpCommit(toolDone(McpCur, k))

ToolDone == \E k \in Checks : ToolDoneOf(k)

SendDoneOf(k) ==
    /\ checks[k].pc = "send"
    /\ \E ok \in BOOLEAN : McpCommit(sendDone(McpCur, k, ok))

SendDone == \E k \in Checks : SendDoneOf(k)

EvictLongOf(c) ==
    /\ evictions[c].long > 0
    /\ McpCommit(evictLong(McpCur, c))

EvictShortOf(c) ==
    /\ evictions[c].short > 0
    /\ McpCommit(evictShort(McpCur, c))

EvictLong == \E c \in Convs : EvictLongOf(c)

EvictShort == \E c \in Convs : EvictShortOf(c)

ToggleRealMode ==
    /\ mcpPhase = "listening"
    /\ \E enabled \in BOOLEAN : McpCommit(toggleRealMode(McpCur, enabled))

CurrentMode ==
    /\ mcpPhase = "listening"
    /\ McpCommit(currentMode(McpCur))

HealthCheck ==
    /\ mcpPhase = "listening"
    /\ McpCommit(healthCheck(McpCur))

SearchPlans ==
    /\ mcpPhase = "listening"
    /\ McpCommit(searchPlans(McpCur))

\* start-up, /api/configure and the conversation polling
NextPoll ==
    \/ LoadUrl
    \/ Listen
    \/ Configure
    \/ PollTick
    \/ FetchReturn
    \/ ToolDone
    \/ SendDone
    \/ EvictLong
    \/ EvictShort

SpecPoll == Init /\ [][NextPoll]_vars

\* The polling as run() starts it; /api/configure, which adds nothing but a
\* second timer for the same callback, is left to SpecPoll.
NextConv ==
    \/ LoadUrl
    \/ Listen
    \/ PollTick
    \/ FetchReturn
    \/ ToolDone
    \/ SendDone
    \/ EvictLong
    \/ EvictShort

\* Every call processAndRespond awaits settles (the fetch calls carry a
\* 10 s timeout) and every eviction timer fires, as long as the host runs.
\* A run awaits one call at a time, so one condition per run covers both
\* continuations.
FairPoll ==
    /\ \A k \in Checks : WF_vars(ToolDoneOf(k) \/ SendDoneOf(k))
    /\ \A c \in Convs : WF_vars(EvictLongOf(c) \/ EvictShortOf(c))

SpecConvFair == Init /\ [][NextConv]_vars /\ FairPoll

\* start-up and the requests that set, report and use the API mode
NextMode ==
    \/ LoadEnv
    \/ Listen
    \/ ToggleRealMode
    \/ CurrentMode
    \/ HealthCheck
    \/ SearchPlans

SpecMode == Init /\ [][NextMode]_vars

TypeOK ==
    /\ \A i \in 1..Len(runningProcesses) :
          runningProcesses[i].id \in Ids /\ runningProcesses[i].proc \in Procs
    /\ issued \subseteq Ids
    /\ \A p \in Procs :
          /\ spawned[p] \in {"unused", "ok", "enoent", "threw"}
          /\ os[p] \in {"none", "running", "terminating", "exited"}
          /\ timer[p] \in {"none", "pending", "fired"}
          /\ killed[p] \in BOOLEAN /\ closed[p] \in BOOLEAN
    /\ host \in {"up", "crashed", "exited"}


\* ---- properties ---------------------------------------------------------
Has(id) == MapHas(runningProcesses, id)

\* the host has just handled a callback (OsExit is not one)
HostStep == lastOp' # lastOp

\* the callback handled by this step is a teardown attempt on id
TeardownStep(id) ==
    /\ HostStep
    /\ lastOp'.op \in {"stop", "close", "timeout"}
    /\ lastOp'.id = id

ProcessStateUnchanged ==
    UNCHANGED <<runningProcesses, os, killed, killCalls, signals, delCalls,
                timer, closed, resp, spawned, host, pendingError>>

\* C1: for one execution id, whatever the interleaving of stop requests, the
\* close callback, the timeout and the shutdown sweep, process.kill() and
\* runningProcesses.delete(id) are each performed at most once, and a
\* teardown attempt on an id that is no longer registered changes nothing
\* and keeps the host up (raises no error).
C1_OneTeardownWins ==
    /\ [](/\ \A p \in Procs : killCalls[p] <= 1 /\ signals[p] <= 1
          /\ \A id \in Ids : delCalls[id] <= 1)
    /\ [][\A id \in Ids :
            (TeardownStep(id) /\ ~Has(id)) =>
                UNCHANGED <<runningProcesses, os, killed, killCalls, signals,
                            delCalls, host>>]_vars

\* stop, the close callback and the timeout have all acted on one id
C1_Witness ==
    \E p \in Procs :
        /\ closed[p] /\ timer[p] = "fired"
        /\ lastOp.op = "stop" /\ lastOp.id = execId[p]
        /\ killCalls[p] = 1 /\ signals[p] = 1 /\ delCalls[execId[p]] = 1

\* C2: the second of two consecutive stop(id) requests returns the same
\* result as the first, success, leaves the registry as the first left it,
\* and does not kill the process again.
C2_StopIdempotent ==
    [][(HostStep /\ lastOp'.op = "stop" /\ lastOp'.n >= 2) =>
          /\ lastOp.op = "stop" /\ lastOp.id = lastOp'.id
          /\ lastOp'.resp = lastOp.resp
          /\ lastOp'.resp = "Process stopped"
          /\ runningProcesses' = runningProcesses
          /\ killCalls' = killCalls /\ signals' = signals
          /\ \A p \in Procs : killCalls'[p] <= 1]_vars

\* stop(id) handled twice in a row, the first having found and killed the process
C2_Witness ==
    /\ lastOp.op = "stop" /\ lastOp.n = 2 /\ lastOp.hit
    /\ \E p \in Procs : execId[p] = lastOp.id /\ signals[p] = 1

\* C3: stop with an id that is not in the registry answers success and
\* changes neither the registry nor any process, timer or signal count.
C3_StopUnknownNoEffect ==
    [][\A id \in Ids :
          (HostStep /\ lastOp'.op = "stop" /\ lastOp'.id = id /\ ~Has(id)) =>
              /\ lastOp'.resp = "Process stopped"
              /\ ProcessStateUnchanged]_vars

\* stop of a never-issued id while another execution is registered and running
C3_Witness ==
    /\ lastOp.op = "stop" /\ lastOp.id \notin issued /\ ~lastOp.hit
    /\ \E p \in Procs : os[p] = "running" /\ Has(execId[p]) /\ timer[p] = "pending"

\* C4: once the timeout action of an execution has fired, list() does not
\* contain its id and its process is no longer running.
C4_TimeoutLaw ==
    \A p \in Procs :
        timer[p] = "fired" =>
            /\ \A i \in 1..Len(listProcesses(Cur)) :
                  listProcesses(Cur)[i].id # execId[p]
            /\ os[p] # "running"

\* the timeout found the execution registered and running, and ended it
C4_Witness ==
    \E p \in Procs :
        /\ timer[p] = "fired"
        /\ lastOp.op = "timeout" /\ lastOp.id = execId[p] /\ lastOp.hit
        /\ signals[p] = 1 /\ ~closed[p]

\* C5: right after the SIGTERM or SIGINT handler has run, no child process
\* is running, however many were registered.
C5_ShutdownLaw ==
    lastOp.op \in {"SIGTERM", "SIGINT"} =>
        \A p \in Procs : os[p] # "running"

\* the sweep met at least two registered executions, and the host exited
C5_Witness ==
    /\ lastOp.op = "SIGINT" /\ lastOp.n >= 2 /\ host = "exited"
    /\ \A p \in Procs : spawned[p] = "ok" => signals[p] = 1

\* C6 as stated: the registry never holds a handle whose process has exited.
C6_NoExitedHandleInRegistry ==
    \A i \in 1..Len(runningProcesses) :
        os[runningProcesses[i].proc] # "exited"

\* C6: once the host has handled stop(id) or the close callback of id, the
\* registry holds no entry for id; a handle of an exited process is in the
\* registry only while its close callback has not been dispatched yet.
C6_RaceSafety ==
    \A i \in 1..Len(runningProcesses) :
        LET e == runningProcesses[i]
        IN  /\ ~closed[e.proc]
            /\ ~(lastOp.op \in {"stop", "close"} /\ lastOp.id = e.id)

\* the race: stop(id) is handled after the process exited and before its
\* close callback
C6_Witness ==
    \E p \in Procs :
        /\ lastOp.op = "stop" /\ lastOp.id = execId[p] /\ lastOp.hit
        /\ os[p] = "exited" /\ ~closed[p] /\ signals[p] = 0

\* C7: a list() handled after a start whose spawn succeeded contains the
\* returned id with status running, unless the process has ended or has been
\* told to end.
C7_StartedIsListed ==
    lastOp.op = "list" =>
        \A p \in Procs :
            (spawned[p] = "ok" /\ resp[p] = <<"started">>) =>
                \/ \E i \in 1..Len(listed) :
                      listed[i] = [id |-> execId[p], status |-> "running"]
                \/ os[p] # "running"

\* list() answered with a started, still running execution in it
C7_Witness ==
    /\ lastOp.op = "list"
    /\ \E p \in Procs :
          /\ spawned[p] = "ok" /\ os[p] = "running"
          /\ \E i \in 1..Len(listed) :
                listed[i] = [id |-> execId[p], status |-> "running"]

\* C8: a run request whose launch fails creates no process and leaves the
\* registry as it was.
C8_FailedLaunchNotRegistered ==
    [][\A p \in Procs :
          (spawned[p] = "unused" /\ spawned'[p] \in {"enoent", "threw"}) =>
              /\ runningProcesses' = runningProcesses
              /\ os'[p] = "none"]_vars

\* C9: a run request whose process cannot be started gets exactly one
\* response, and it is the failure response.
C9_FailedLaunchAnswersFailure ==
    \A p \in Procs :
        spawned[p] \in {"enoent", "threw"} => resp[p] = <<"failed">>

\* C10: after the close callback the id is not in the registry, and the
\* timeout action that fires after it changes no registry entry and asks
\* for no termination.
C10_TimeoutAfterExitNoop ==
    /\ [](\A p \in Procs : closed[p] => ~Has(execId[p]))
    /\ [][\A p \in Procs :
            (closed[p] /\ timer[p] = "pending" /\ timer'[p] = "fired") =>
                UNCHANGED <<runningProcesses, os, killed, killCalls, signals,
                            delCalls>>]_vars

\* natural exit, close callback, then the timeout fires on the removed id
C10_Witness ==
    \E p \in Procs :
        /\ closed[p] /\ signals[p] = 0 /\ delCalls[execId[p]] = 1
        /\ lastOp.op = "timeout" /\ lastOp.id = execId[p] /\ ~lastOp.hit


\* C11: when stop(id) or the timeout of id runs while id is registered with
\* a running process, the process is signalled; and whenever they run while
\* id is registered, whatever the state of its process, id is absent
\* afterwards.
C11_CancelSignalsAndRemoves ==
    [][\A p \in Procs :
          (/\ HostStep
           /\ lastOp'.op \in {"stop", "timeout"}
           /\ lastOp'.id = execId[p]
           /\ Has(execId[p])) =>
              /\ ~MapHas(runningProcesses', execId[p])
              /\ os[p] = "running" =>
                    /\ signals'[p] = signals[p] + 1
                    /\ os'[p] = "terminating"
                    /\ killed'[p]]_vars

\* stop has removed an entry whose process had already exited (nothing to
\* signal), while a timeout has signalled and removed another
C11_Witness ==
    \E p, q \in Procs :
        /\ lastOp.op = "stop" /\ lastOp.id = execId[p] /\ lastOp.hit /\ lastOp.n = 1
        /\ os[p] = "exited" /\ signals[p] = 0 /\ ~closed[p] /\ ~Has(execId[p])
        /\ timer[q] = "fired" /\ signals[q] = 1 /\ ~Has(execId[q])

\* C12 as stated: process.kill() is called only for a registered process
\* that has not exited.
C12_KillOnlyLiveRegistered ==
    [][\A p \in Procs :
          killCalls'[p] > killCalls[p] =>
              Has(execId[p]) /\ os[p] # "exited"]_vars

\* C12: process.kill() is called only for a handle that is registered under
\* its id and not marked killed, and a signal is delivered exactly when that
\* process has not exited; the call is also made for an exited process.
C12_KillOnlyRegisteredUnkilled ==
    [][\A p \in Procs :
          /\ killCalls'[p] > killCalls[p] =>
                /\ Has(execId[p])
                /\ MapGet(runningProcesses, execId[p]) = p
                /\ ~killed[p]
                /\ (signals'[p] > signals[p]) <=> (os[p] = "running")
          /\ signals'[p] > signals[p] => killCalls'[p] > killCalls[p]]_vars

\* the close callback after a natural exit has called kill() on the exited
\* process, and no signal was delivered
C12_Witness ==
    \E p \in Procs :
        /\ lastOp.op = "close" /\ lastOp.id = execId[p] /\ lastOp.hit
        /\ killCalls[p] = 1 /\ signals[p] = 0 /\ os[p] = "exited"

\* the callback handled by this step is GET /processes
ListStep == lastOp'.op = "list" /\ (lastOp' # lastOp \/ listed' # listed)

\* C13: list() reports 'running' for an entry exactly when its process has
\* not exited at query time, and 'stopped' otherwise.
C13_StatusIsLiveness ==
    [][ListStep =>
          \A i \in 1..Len(listed') :
              LET q == MapGet(runningProcesses, listed'[i].id)
              IN  /\ listed'[i].status = "running" <=> os[q] # "exited"
                  /\ listed'[i].status = "stopped" <=> os[q] = "exited"]_vars

\* C15 as stated: an execution that is no longer registered has exited.
C15_RemovedOnlyWhenExited ==
    \A p \in Procs :
        (spawned[p] = "ok" /\ ~Has(execId[p])) => os[p] = "exited"

\* C15: a spawned process that is running and has not been told to end is
\* registered under its id; an entry is removed either by the close callback
\* after the exit or in the very callback that requests the termination.
C15_RunningIsRegistered ==
    /\ [](\A p \in Procs :
            (spawned[p] = "ok" /\ os[p] = "running") =>
                Has(execId[p]) /\ MapGet(runningProcesses, execId[p]) = p)
    /\ [][\A p \in Procs :
            (Has(execId[p]) /\ ~MapHas(runningProcesses', execId[p])) =>
                os[p] = "exited" \/ os'[p] = "terminating"]_vars

\* stop removed the entry while the process, already signalled, has not
\* exited yet
C15_Witness ==
    \E p \in Procs :
        /\ lastOp.op = "stop" /\ lastOp.id = execId[p] /\ lastOp.hit
        /\ os[p] = "terminating" /\ ~Has(execId[p])

\* the callback handled by this step is a run request that created handle p
RunStep(p) == spawned[p] = "unused" /\ spawned'[p] # "unused"

\* C16: a run request registers its handle under an id that is not a key of
\* the registry, so every entry present before is still there with its own
\* handle, and no id or handle occurs in two entries.
C16_FreshIdentity ==
    /\ [][\A p \in Procs :
            (RunStep(p) /\ MapHas(runningProcesses', execId'[p])) =>
                /\ ~Has(execId'[p])
                /\ \A i \in 1..Len(runningProcesses) :
                      runningProcesses'[i] = runningProcesses[i]]_vars
    /\ [](\A i, j \in 1..Len(runningProcesses) :
            (runningProcesses[i].id = runningProcesses[j].id
             \/ runningProcesses[i].proc = runningProcesses[j].proc) => i = j)

\* a second execution registered while the first is still registered and running
C16_Witness ==
    /\ lastOp.op = "run"
    /\ Len(runningProcesses) >= 2
    /\ \A i \in 1..Len(runningProcesses) : os[runningProcesses[i].proc] = "running"

\* C17: a process never runs again once it was told to end or has exited,
\* an id that was removed from the registry is never in it again, and the
\* close callback or the timeout of an execution removes no entry of
\* another execution.
C17_OneWay ==
    /\ [](\A id \in Ids : delCalls[id] >= 1 => ~Has(id))
    /\ [][\A p \in Procs :
            /\ os[p] \in {"terminating", "exited"} => os'[p] # "running"
            /\ os[p] = "exited" => os'[p] = "exited"
            /\ ((closed'[p] /\ ~closed[p]) \/ (timer[p] = "pending" /\ timer'[p] = "fired")) =>
                  \A i \in 1..Len(runningProcesses) :
                      runningProcesses[i].proc # p =>
                          MapHas(runningProcesses', runningProcesses[i].id)]_vars

\* the timeout of a removed execution fires while a newer one is registered
\* and running, and leaves it alone
C17_Witness ==
    \E p, q \in Procs :
        /\ p < q
        /\ lastOp.op = "timeout" /\ lastOp.id = execId[p] /\ ~lastOp.hit
        /\ delCalls[execId[p]] = 1
        /\ Has(execId[q]) /\ os[q] = "running"


\* C14: GET /processes returns exactly the ids of the registry, in its
\* order, and changes nothing: registry, processes, timers, accumulators.
C14_ListIsProjection ==
    [][ListStep =>
          /\ [i \in 1..Len(listed') |-> listed'[i].id] = MapKeys(runningProcesses)
          /\ ProcessStateUnchanged
          /\ UNCHANGED <<issued, execId, output, errorOutput, stdoutChunks,
                         stderrChunks, exitCode, logged>>]_vars

\* a list that contains an exited process awaiting its close callback and
\* omits an execution that has already been removed
C14_Witness ==
    /\ lastOp.op = "list"
    /\ Len(listed) >= 1
    /\ [i \in 1..Len(listed) |-> listed[i].id] = MapKeys(runningProcesses)
    /\ \E p, q \in Procs :
          /\ Has(execId[p]) /\ os[p] = "exited"
          /\ spawned[q] = "ok" /\ ~Has(execId[q])

IsPrefix(a, b) == Len(a) <= Len(b) /\ \A i \in 1..Len(a) : a[i] = b[i]

\* C18: the response with the execution id is sent by the run request
\* itself, while the process has only just been started, and therefore
\* before any data, close or timeout callback of that execution runs.
C18_StartIsNonBlocking ==
    /\ [](\A p \in Procs :
            (\/ stdoutChunks[p] # <<>> \/ stderrChunks[p] # <<>>
             \/ closed[p] \/ timer[p] = "fired") =>
                resp[p] = <<"started">>)
    /\ [][\A p \in Procs :
            RunStep(p) =>
                /\ resp'[p] = <<"started">>
                /\ os'[p] = "running" /\ ~closed'[p] /\ timer'[p] = "pending"
                /\ output'[p] = <<>> /\ errorOutput'[p] = <<>>]_vars

\* output is being accumulated for an answered request whose process runs on
C18_Witness ==
    \E p \in Procs :
        /\ resp[p] = <<"started">>
        /\ os[p] = "running" /\ ~closed[p]
        /\ output[p] # <<>>

C21_RegisteredHasWatchdog ==
    /\ [](host = "up" =>
            \A i \in 1..Len(runningProcesses) :
                timer[runningProcesses[i].proc] = "pending")
    /\ [][\A p \in Procs :
            (timer[p] = "pending" /\ timer'[p] = "fired") =>
                ~MapHas(runningProcesses', execId[p])]_vars

\* an exited execution still registered, its timer pending, next to one
\* whose timer has fired and removed it
C21_Witness ==
    /\ host = "up"
    /\ \E p, q \in Procs :
          /\ Has(execId[p]) /\ os[p] = "exited" /\ timer[p] = "pending"
          /\ timer[q] = "fired" /\ spawned[q] = "ok" /\ ~Has(execId[q])

\* C22: when the SIGTERM or SIGINT handler has finished, the registry is
\* empty: the forEach has called kill() and delete for every entry that was
\* registered, although each visit deletes from the map being iterated; and
\* the host exits on SIGINT only with the sweep done.
C22_SweepReachesEveryEntry ==
    /\ [](lastOp.op \in {"SIGTERM", "SIGINT"} => runningProcesses = <<>>)
    /\ [][(HostStep /\ lastOp'.op \in {"SIGTERM", "SIGINT"}) =>
            /\ \A i \in 1..Len(runningProcesses) :
                  /\ delCalls'[runningProcesses[i].id]
                        = delCalls[runningProcesses[i].id] + 1
                  /\ killCalls'[runningProcesses[i].proc]
                        = killCalls[runningProcesses[i].proc] + 1
            /\ runningProcesses' = <<>>
            /\ (lastOp'.op = "SIGINT" => host' = "exited")]_vars

\* a SIGTERM sweep that met two entries and left none
C22_Witness ==
    /\ lastOp.op = "SIGTERM" /\ lastOp.n = 2 /\ host = "up"
    /\ runningProcesses = <<>>
    /\ \E p, q \in Procs :
          /\ p # q
          /\ killCalls[p] = 1 /\ delCalls[execId[p]] = 1
          /\ killCalls[q] = 1 /\ delCalls[execId[q]] = 1

OtherExecutionsUnchanged(id) ==
    /\ runningProcesses' = MapDelete(runningProcesses, id)
    /\ \A i \in Ids \ {id} : delCalls'[i] = delCalls[i]
    /\ \A q \in Procs :
          execId[q] # id =>
              /\ execId'[q] = execId[q] /\ spawned'[q] = spawned[q]
              /\ os'[q] = os[q] /\ killed'[q] = killed[q]
              /\ closed'[q] = closed[q] /\ timer'[q] = timer[q]
              /\ resp'[q] = resp[q] /\ killCalls'[q] = killCalls[q]
              /\ signals'[q] = signals[q] /\ exitCode'[q] = exitCode[q]
              /\ output'[q] = output[q] /\ errorOutput'[q] = errorOutput[q]
              /\ stdoutChunks'[q] = stdoutChunks[q]
              /\ stderrChunks'[q] = stderrChunks[q]
              /\ logged'[q] = logged[q]

\* C24: a stop request for id, the timeout of id and the close callback of
\* id change nothing of any other execution: its registry entry, process,
\* accumulators and timer are as before.
\* The step is recognised by what each of the three callbacks does to id:
\* delete(id) is called, or the close callback or the timer of the
\* execution with that id runs.
C24_TeardownIsLocal ==
    [][\A id \in Ids :
          (\/ delCalls'[id] # delCalls[id]
           \/ \E p \in Procs :
                 /\ execId[p] = id
                 /\ closed'[p] # closed[p] \/ timer'[p] # timer[p])
          => OtherExecutionsUnchanged(id)]_vars

\* an execution killed and removed, its timer fired, while an older one is
\* still registered and running with output accumulated and its own timer
\* pending
C24_Witness ==
    \E p, q \in Procs :
        /\ q < p
        /\ killed[p] /\ timer[p] = "fired" /\ ~Has(execId[p])
        /\ Has(execId[q]) /\ os[q] = "running"
        /\ timer[q] = "pending" /\ output[q] # <<>>

\* C25: no handle in the registry has killed set, so every status list()
\* computes, and every status it has returned, is 'running'.
C25_RegisteredNeverKilled ==
    /\ \A i \in 1..Len(runningProcesses) : ~killed[runningProcesses[i].proc]
    /\ \A i \in 1..Len(listProcesses(Cur)) : listProcesses(Cur)[i].status = "running"
    /\ \A i \in 1..Len(listed) : listed[i].status = "running"

\* a list taken while one execution is registered and another has been
\* killed and removed, its process still terminating
C25_Witness ==
    /\ lastOp.op = "list" /\ listed # <<>>
    /\ Len(listed) = Len(runningProcesses)
    /\ \E p \in Procs : killed[p] /\ os[p] = "terminating" /\ ~Has(execId[p])

\* C26: a stdout (stderr) 'data' callback of an execution appends the decoded
\* chunk to that execution's output (errorOutput) and changes nothing else,
\* whether or not the execution is still registered; nothing else changes
\* an accumulator.
C26_DataEventIsLocal ==
    [][\A p \in Procs :
        /\ stdoutChunks'[p] # stdoutChunks[p] =>
              /\ output'[p] = output[p]
                    \o toString(stdoutChunks'[p][Len(stdoutChunks'[p])])
              /\ \A q \in Procs \ {p} : output'[q] = output[q]
              /\ UNCHANGED <<errorOutput, stderrChunks>>
              /\ ProcessStateUnchanged
              /\ UNCHANGED <<issued, execId, exitCode, logged>>
        /\ stderrChunks'[p] # stderrChunks[p] =>
              /\ errorOutput'[p] = errorOutput[p]
                    \o toString(stderrChunks'[p][Len(stderrChunks'[p])])
              /\ \A q \in Procs \ {p} : errorOutput'[q] = errorOutput[q]
              /\ UNCHANGED <<output, stdoutChunks>>
              /\ ProcessStateUnchanged
              /\ UNCHANGED <<issued, execId, exitCode, logged>>
        /\ output'[p] # output[p] => stdoutChunks'[p] # stdoutChunks[p]
        /\ errorOutput'[p] # errorOutput[p] => stderrChunks'[p] # stderrChunks[p]]_vars

\* a stdout chunk accepted for an execution that a stop request or its
\* timeout had already killed and removed
C26_Witness ==
    /\ lastOp.op = "stdout" /\ ~lastOp.hit
    /\ \E p \in Procs :
          /\ execId[p] = lastOp.id /\ killed[p] /\ ~closed[p]
          /\ ~Has(execId[p]) /\ output[p] # <<>>

\* C27 as stated: after any sequence of start-up and /api/configure requests
\* at most one periodic polling timer is active.
C27_AtMostOnePollingTimer == intervals <= 1

\* the runs of checkForNewMessages that are awaiting processAndRespond(c)
InFlight(c) ==
    {k \in Checks : checks[k].pc \in {"tool", "send"} /\ checks[k].cur = c}

\* C28: at most one processAndRespond per conversation is in flight, its id
\* is in the processed set while it is, and a processing starts only for an
\* id that was not in the set and is put into the set by the same step.
C28_OneProcessingPerConversation ==
    /\ [](\A c \in Convs :
            /\ Cardinality(InFlight(c)) <= 1
            /\ InFlight(c) # {} => c \in processedConversationIds)
    /\ [][\A c \in Convs, k \in Checks :
            (k \notin InFlight(c) /\ k \in InFlight(c)') =>
                /\ c \notin processedConversationIds
                /\ c \in processedConversationIds']_vars

\* two overlapping runs: one is processing a conversation that the other
\* has found in the set and skipped before it went on to another one
C28_Witness ==
    \E k1, k2 \in Checks, c \in Convs :
        /\ k1 # k2
        /\ k1 \in InFlight(c)
        /\ c \in checks[k2].skipped
        /\ checks[k2].pc \in {"tool", "send"} /\ checks[k2].cur # c

\* C29: an id in the processed set is being processed or has exactly one
\* eviction timer pending, and, as awaited calls settle and timers fire,
\* every id in the set is eventually out of it.
C29_EventuallyEvicted ==
    /\ [](\A c \in Convs :
            c \in processedConversationIds =>
                Cardinality(InFlight(c)) + evictions[c].long + evictions[c].short = 1)
    /\ \A c \in Convs :
            (c \in processedConversationIds) ~> (c \notin processedConversationIds)

\* one conversation awaiting the eviction scheduled after its response was
\* sent, another the shorter one scheduled after sending failed
C29_Witness ==
    \E c, d \in Convs :
        /\ {c, d} \subseteq processedConversationIds
        /\ evictions[c].long = 1 /\ evictions[d].short = 1

\* C30 as stated: /api/current-mode reports the mode set by the last
\* /api/toggle-real-mode request, and searchPlans uses that mode, which is
\* also the one /api/current-mode reports at that moment.
C30_ModeConsistent ==
    /\ (mcpOp = "mode" /\ toggled # "none") => reported = toggled
    /\ (mcpOp = "search" /\ toggled # "none") => searched = toggled
    /\ mcpOp = "search" => searched = ModeOf(env_USE_REAL_API = "true")
====
